---- MODULE Spec2Model ----
(***************************************************************************)
(* chat-margins: the paragraph segmenter, the note lifecycle of the        *)
(* editor component (paragraph-count trigger and double-Enter trigger),    *)
(* and the annotation client (single-stage and two-stage adaptive).        *)
(*                                                                         *)
(* Strings are sequences of one-character strings, so that split, trim,    *)
(* toLowerCase and the two regular expressions of the parser are computed  *)
(* character by character as the JavaScript does.                          *)
(*                                                                         *)
(* Granularity: one action is one event-loop task of the page (an input    *)
(* event, a key press, a timer callback, the continuation of an awaited    *)
(* promise) together with the re-render and the effects React runs for it. *)
(***************************************************************************)
EXTENDS Integers, Sequences, FiniteSets, Bags, TLC

VARIABLES
    content,            \* useState('') : the document text
    marginNotes,        \* useState({}) : paragraph index -> note
    prevParagraphCount, \* useRef(0)    : count seen by the trigger effect
    storage,            \* localStorage : the two keys of the application
    inflight,           \* bag of generateMarginNoteForParagraph calls awaiting the client
    phase,              \* "mounting" between the two renders of a start, else "running"
    queued,             \* state updates made by the load effect, applied by the next render
    issued,             \* history: requests started per paragraph index since the page opened
    lastReply,          \* history: how the last finished request of an index ended
    lastCall,           \* history: the generateMarginNoteForParagraph call of this step
    lastKeyWasEnter,    \* useRef(false) of the double-Enter component
    timers,             \* setTimeout(..., 100) callbacks not yet run, oldest first
    enterRun,           \* history: how many of the latest key presses were Enter in a row
    stage,              \* annotation client: position of one generateMarginNote call
    variant,            \* annotation client: "original" (gemini.js) or "adaptive"
    contentType,        \* annotation client: normalised classifier output
    mainPrompt,         \* annotation client: prompt chosen by the switch
    calls,              \* annotation client: collaborator calls made, in order
    outcome,            \* annotation client: how the call settled, and its value
    segText,            \* segmenter alone: the text being segmented
    segResult,          \* segmenter alone: its paragraphs
    segStep,            \* segmenter alone: "input", "segmented" or "resegmented"
    paragraphPositions, \* useState({}) : index -> vertical offset
    posTimers,          \* setTimeout(..., 0) callbacks not yet run: the document each closed over
    resizeListener,     \* the document the registered resize listener closed over
    viewport            \* width of the textarea, in characters per line

vars == <<content, marginNotes, prevParagraphCount, storage, inflight, phase,
          queued, issued, lastReply, lastCall, lastKeyWasEnter, timers, enterRun,
          stage, variant, contentType, mainPrompt, calls, outcome,
          segText, segResult, segStep,
          paragraphPositions, posTimers, resizeListener, viewport>>

appVars == <<content, marginNotes, prevParagraphCount, storage, inflight, phase,
             queued, issued, lastReply, lastCall>>
keyVars == <<lastKeyWasEnter, timers, enterRun>>
clientVars == <<stage, variant, contentType, mainPrompt, calls, outcome>>
segVars == <<segText, segResult, segStep>>
posVars == <<paragraphPositions, posTimers, resizeListener, viewport>>

(***************************************************************************)
(* Bounds of the model.                                                    *)
(***************************************************************************)
MaxPars == 3        \* paragraphs in a document of the editor
MaxKeyPars == 2     \* paragraphs in a document of the double-Enter editor
MaxTimers == 2      \* double-Enter timers the model lets be outstanding
MaxIssued == 2      \* requests the double-Enter model lets be started in all
MaxOutstanding == 0 \* requests the model lets be in flight when the test button is used
MaxDocLen == 6      \* characters in a text given to the segmenter alone
MaxEnterRun == 4    \* Enter presses in a row the double-Enter model follows

(***************************************************************************)
(* Characters and strings.                                                 *)
(***************************************************************************)
WhiteSpace == {" ", "\n", "\t"}

UpperCase == <<"A","B","C","D","E","F","G","H","I","J","K","L","M",
               "N","O","P","Q","R","S","T","U","V","W","X","Y","Z">>
LowerCase == <<"a","b","c","d","e","f","g","h","i","j","k","l","m",
               "n","o","p","q","r","s","t","u","v","w","x","y","z">>

ToLowerChar(c) ==
    IF \E i \in 1..26 : UpperCase[i] = c
    THEN LowerCase[CHOOSE i \in 1..26 : UpperCase[i] = c]
    ELSE c

\* String.prototype.toLowerCase
ToLowerCase(s) == [i \in 1..Len(s) |-> ToLowerChar(s[i])]

SetMin(S) == CHOOSE x \in S : \A y \in S : x <= y
SetMax(S) == CHOOSE x \in S : \A y \in S : x >= y

\* String.prototype.trim
Trim(s) ==
    LET keep == {i \in 1..Len(s) : s[i] \notin WhiteSpace}
    IN  IF keep = {} THEN <<>> ELSE SubSeq(s, SetMin(keep), SetMax(keep))

\* s has w at position p (1-based)
HasAt(s, w, p) ==
    /\ p >= 1
    /\ p + Len(w) - 1 <= Len(s)
    /\ \A k \in 1..Len(w) : s[p + k - 1] = w[k]

Repeat(c, n) == [i \in 1..n |-> c]

\* a table of values, computed once (comparing a function makes TLC
\* evaluate it at every argument and keep the result)
Tabulated(f) == IF f = f THEN f ELSE f

(***************************************************************************)
(* Segmenter: content.split('\n\n').filter(p => p.trim() !== '')           *)
(***************************************************************************)
ParagraphSeparator == <<"\n", "\n">>

\* String.prototype.split with a string separator: leftmost, non-overlapping
RECURSIVE Split(_, _)
Split(s, sep) ==
    LET at == {p \in 1..Len(s) : HasAt(s, sep, p)}
    IN  IF at = {} THEN <<s>>
        ELSE LET p == SetMin(at)
             IN  <<SubSeq(s, 1, p - 1)>> \o Split(SubSeq(s, p + Len(sep), Len(s)), sep)

NotBlank(p) == Trim(p) # <<>>

\* variant: every line is a paragraph and blank entries are kept
paragraphsByLine(text) == Split(text, <<"\n">>)

paragraphs(text) == SelectSeq(Split(text, ParagraphSeparator), NotBlank)

(***************************************************************************)
(* Annotation client: literals.                                            *)
(***************************************************************************)
Commentary == <<"c","o","m","m","e","n","t","a","r","y">>
Question == <<"q","u","e","s","t","i","o","n">>
Kinds == {Commentary, Question}

TypeMarker == <<"T","Y","P","E",":">>
TextMarker == <<"T","E","X","T",":">>

Journaling == <<"j","o","u","r","n","a","l","i","n","g">>
Brainstorming == <<"b","r","a","i","n","s","t","o","r","m","i","n","g">>
Technical == <<"t","e","c","h","n","i","c","a","l">>
Storytelling == <<"s","t","o","r","y","t","e","l","l","i","n","g">>
NoteTaking == <<"n","o","t","e","-","t","a","k","i","n","g">>
Other == <<"o","t","h","e","r">>

\* gemini.js: the text returned when the collaborator call fails
OriginalFallbackText ==
    <<"I","'","m"," ","h","a","v","i","n","g"," ","t","r","o","u","b","l","e"," ",
      "c","o","n","n","e","c","t","i","n","g"," ","r","i","g","h","t"," ","n","o","w",
      "."," ","T","r","y"," ","a","g","a","i","n"," ","i","n"," ","a"," ","m","o","m",
      "e","n","t",".">>

\* adaptive client: the text returned when a collaborator call fails
AdaptiveFallbackText ==
    <<"U","n","a","b","l","e"," ","t","o"," ","g","e","n","e","r","a","t","e"," ",
      "r","e","f","l","e","c","t","i","o","n","."," ","P","l","e","a","s","e"," ",
      "t","r","y"," ","a","g","a","i","n",".">>

(***************************************************************************)
(* Annotation client: the parser.                                          *)
(***************************************************************************)
NoMatch == [matched |-> FALSE, group |-> <<>>]
Match(g) == [matched |-> TRUE, group |-> g]

\* \s* : the first position at or after p that holds no white space
SkipWhiteSpace(s, p) ==
    LET stop == {q \in p..Len(s) : s[q] \notin WhiteSpace}
    IN  IF stop = {} THEN Len(s) + 1 ELSE SetMin(stop)

\* responseText.match(/TYPE:\s*(commentary|question)/i) : capture group 1
TypeMatch(s) ==
    LET lower == ToLowerCase(s)
        marker == ToLowerCase(TypeMarker)
        kindAt(p) == {w \in Kinds : HasAt(lower, w, SkipWhiteSpace(s, p + Len(marker)))}
        at == {p \in 1..Len(s) : HasAt(lower, marker, p) /\ kindAt(p) # {}}
    IN  IF at = {} THEN NoMatch
        ELSE LET p == SetMin(at)
                 q == SkipWhiteSpace(s, p + Len(marker))
                 w == CHOOSE w \in kindAt(p) : TRUE
             IN  Match(SubSeq(s, q, q + Len(w) - 1))

\* responseText.match(/TEXT:\s*(.+)/s) : capture group 1.  No i flag; with the
\* s flag the dot matches line breaks, so the group runs to the end of the
\* text.  \s* is greedy and gives one character back when nothing else is
\* left for (.+).
TextMatch(s) ==
    LET at == {p \in 1..Len(s) : HasAt(s, TextMarker, p) /\ p + Len(TextMarker) <= Len(s)}
    IN  IF at = {} THEN NoMatch
        ELSE LET p == SetMin(at)
                 q == SkipWhiteSpace(s, p + Len(TextMarker))
             IN  IF q <= Len(s) THEN Match(SubSeq(s, q, Len(s)))
                 ELSE Match(SubSeq(s, Len(s), Len(s)))

\* variant: the matched kind is returned as written
ParseResponseKeepsCase(responseText) ==
    LET typeMatch == TypeMatch(responseText)
        textMatch == TextMatch(responseText)
    IN  IF ~typeMatch.matched \/ ~textMatch.matched
        THEN [type |-> Commentary, text |-> Trim(responseText)]
        ELSE [type |-> typeMatch.group, text |-> Trim(textMatch.group)]

\* gemini.js: parse of the generation output
ParseResponse(responseText) ==
    LET typeMatch == TypeMatch(responseText)
        textMatch == TextMatch(responseText)
    IN  IF ~typeMatch.matched \/ ~textMatch.matched
        THEN [type |-> Commentary, text |-> Trim(responseText)]
        ELSE [type |-> ToLowerCase(typeMatch.group), text |-> Trim(textMatch.group)]

\* adaptive client: parse of the generation output
ParseResponseAdaptive(responseText) ==
    LET typeMatch == TypeMatch(responseText)
        textMatch == TextMatch(responseText)
    IN  IF ~typeMatch.matched \/ ~textMatch.matched
        THEN [type |-> Commentary, text |-> Trim(responseText)]
        ELSE [type |-> ToLowerCase(typeMatch.group), text |-> Trim(textMatch.group)]

(***************************************************************************)
(* Annotation client: classification and template choice (adaptive).       *)
(***************************************************************************)
\* variant: toLowerCase is missing
NormalizeContentTypeKeepsCase(raw) == Trim(raw)

\* analysisResponse.text().trim().toLowerCase()
NormalizeContentType(raw) == ToLowerCase(Trim(raw))

\* switch (contentType) : the branch taken, named by its prompt
SelectPrompt(ct) ==
    CASE ct = Journaling    -> "journaling"
      [] ct = Brainstorming -> "brainstorming"
      [] ct = Technical     -> "technical"
      [] ct = Storytelling  -> "storytelling"
      [] ct = NoteTaking    -> "note-taking"
      [] OTHER              -> "default"

Resolved(v) == [status |-> "resolved", value |-> v]
Rejected == [status |-> "rejected", value |-> [type |-> <<>>, text |-> <<>>]]
Unsettled == [status |-> "none", value |-> [type |-> <<>>, text |-> <<>>]]

\* variant: the error is passed on to the caller
OriginalCatchRethrows == Rejected

\* gemini.js: catch (error) { return {type: 'commentary', text: ...} }
OriginalCatch == Resolved([type |-> Commentary, text |-> OriginalFallbackText])

\* variant: the error is passed on to the caller
AdaptiveCatchRethrows == Rejected

\* adaptive client: catch (error) { return {type: 'commentary', text: ...} }
AdaptiveCatch == Resolved([type |-> Commentary, text |-> AdaptiveFallbackText])

\* gemini.js generateMarginNote, given what the collaborator does with the
\* one call: reply = [ok |-> TRUE, text |-> t] or [ok |-> FALSE, text |-> <<>>]
generateMarginNote(reply) ==
    IF reply.ok THEN Resolved(ParseResponse(reply.text)) ELSE OriginalCatch

(***************************************************************************)
(* Annotation client as a process: one call of generateMarginNote, the     *)
(* collaborator answering or failing each model.generateContent.           *)
(***************************************************************************)
Pending == [state |-> "pending", text |-> <<>>]
Returned(t) == [state |-> "returned", text |-> t]
Failed == [state |-> "rejected", text |-> <<>>]

Call(template, paragraphText) ==
    [template |-> template, text |-> paragraphText, reply |-> Pending]

Settle(cs, r) == [cs EXCEPT ![Len(cs)].reply = r]

\* paragraph texts handed to the client
ClientTexts == {<<"h","i">>, Repeat("a", 10)}

\* what the collaborator may answer to the classification prompt
ClassifierOutputs ==
    { Journaling, Brainstorming, Technical, Storytelling, NoteTaking, Other,
      <<" ","J","o","u","r","n","a","l","i","n","g","\n">>,
      <<"N","O","T","E","-","T","A","K","I","N","G">>,
      <<"j","o","u","r","n","a","l","i","n","g",".">>,
      <<"n","o","t","e"," ","t","a","k","i","n","g">>,
      <<"p","o","e","t","r","y">>,
      <<" ">>,
      <<>> }

\* what the collaborator may answer to the generation prompt: every
\* combination of present, absent and miswritten parts of the format
ResponseTypeMarkers == {<<>>, TypeMarker, <<"t","y","p","e",":">>}
ResponseKinds == {<<>>, Question, <<"C","o","m","m","e","n","t","a","r","y">>, <<"p","o","e","m">>,
                  <<"q","u","e","s","t","i","o","n","s">>}
ResponseTextMarkers == {<<>>, TextMarker, <<"t","e","x","t",":">>}
ResponseGaps == {<<>>, <<" ">>}
ResponseBreaks == {<<>>, <<"\n">>}
ResponseBodies == {<<>>, <<"x">>, <<"x","\n","y"," ">>}

Responses ==
    { tm \o g1 \o k \o br \o xm \o g2 \o b :
        tm \in ResponseTypeMarkers, g1 \in ResponseGaps, k \in ResponseKinds,
        br \in ResponseBreaks, xm \in ResponseTextMarkers, g2 \in ResponseGaps,
        b \in ResponseBodies }

ClientInit ==
    /\ stage = "idle"
    /\ variant \in {"original", "adaptive"}
    /\ contentType = <<>>
    /\ mainPrompt = "none"
    /\ calls = <<>>
    /\ outcome = Unsettled

\* generateMarginNote(paragraphText) up to its first await
ClientStart(paragraphText) ==
    /\ stage = "idle"
    /\ IF variant = "adaptive"
       THEN /\ calls' = <<Call("analysis", paragraphText)>>
            /\ stage' = "awaitAnalysis"
            /\ UNCHANGED mainPrompt
       ELSE /\ calls' = <<Call("original", paragraphText)>>
            /\ stage' = "awaitMain"
            /\ mainPrompt' = "original"
    /\ UNCHANGED <<variant, contentType, outcome>>
    /\ UNCHANGED <<appVars, keyVars, segVars, posVars>>

\* stage 1 answered: normalise, choose the prompt, send it
AnalysisReturns(raw) ==
    /\ stage = "awaitAnalysis"
    /\ contentType' = NormalizeContentType(raw)
    /\ mainPrompt' = SelectPrompt(contentType')
    /\ calls' = Append(Settle(calls, Returned(raw)), Call(mainPrompt', calls[1].text))
    /\ stage' = "awaitMain"
    /\ UNCHANGED <<variant, outcome>>
    /\ UNCHANGED <<appVars, keyVars, segVars, posVars>>

\* variant: a failed classification is taken as "other" and stage 2 runs
AnalysisRejectsDefaultsToOther ==
    /\ stage = "awaitAnalysis"
    /\ contentType' = Other
    /\ mainPrompt' = SelectPrompt(Other)
    /\ calls' = Append(Settle(calls, Failed), Call(mainPrompt', calls[1].text))
    /\ stage' = "awaitMain"
    /\ UNCHANGED <<variant, outcome>>
    /\ UNCHANGED <<appVars, keyVars, segVars, posVars>>

\* stage 1 failed: the one catch block of the function
AnalysisRejects ==
    /\ stage = "awaitAnalysis"
    /\ calls' = Settle(calls, Failed)
    /\ outcome' = AdaptiveCatch
    /\ stage' = "done"
    /\ UNCHANGED <<variant, contentType, mainPrompt>>
    /\ UNCHANGED <<appVars, keyVars, segVars, posVars>>

\* the generation call answered: parse and return
MainReturns(responseText) ==
    /\ stage = "awaitMain"
    /\ calls' = Settle(calls, Returned(responseText))
    /\ outcome' = IF variant = "adaptive"
                  THEN Resolved(ParseResponseAdaptive(responseText))
                  ELSE generateMarginNote([ok |-> TRUE, text |-> responseText])
    /\ stage' = "done"
    /\ UNCHANGED <<variant, contentType, mainPrompt>>
    /\ UNCHANGED <<appVars, keyVars, segVars, posVars>>

\* variant: a failed generation call is made again
MainRejectsRetries ==
    /\ stage = "awaitMain"
    /\ calls' = Append(Settle(calls, Failed), Call(mainPrompt, calls[1].text))
    /\ UNCHANGED <<stage, outcome>>
    /\ UNCHANGED <<variant, contentType, mainPrompt>>
    /\ UNCHANGED <<appVars, keyVars, segVars, posVars>>

\* the generation call failed
MainRejects ==
    /\ stage = "awaitMain"
    /\ calls' = Settle(calls, Failed)
    /\ outcome' = IF variant = "adaptive"
                  THEN AdaptiveCatch
                  ELSE generateMarginNote([ok |-> FALSE, text |-> <<>>])
    /\ stage' = "done"
    /\ UNCHANGED <<variant, contentType, mainPrompt>>
    /\ UNCHANGED <<appVars, keyVars, segVars, posVars>>

ClientNext ==
    \/ \E t \in ClientTexts : ClientStart(t)
    \/ \E raw \in ClassifierOutputs : AnalysisReturns(raw)
    \/ AnalysisRejects
    \/ \E r \in Responses : MainReturns(r)
    \/ MainRejects

(***************************************************************************)
(* Editor component: notes, documents, persistence.                        *)
(***************************************************************************)
MinParagraphLength == 10

Thinking == <<"T","h","i","n","k","i","n","g",".",".",".">>

\* variant: the placeholder is written hidden
LoadingNoteHidden ==
    [text |-> Thinking, type |-> Commentary, isVisible |-> FALSE, isLoading |-> TRUE]

\* the placeholder written before the client is called
LoadingNote ==
    [text |-> Thinking, type |-> Commentary, isVisible |-> TRUE, isLoading |-> TRUE]

\* variant: the loading flag is not cleared
ResolvedNoteStillLoading(note) ==
    [text |-> note.text, type |-> note.type, isVisible |-> TRUE, isLoading |-> TRUE]

\* the entry written when the client has returned note
ResolvedNote(note) ==
    [text |-> note.text, type |-> note.type, isVisible |-> TRUE, isLoading |-> FALSE]

NoNotes == [i \in {} |-> LoadingNote]

\* variant: an entry that is still loading does not count as a note
HasFinishedNote(notes, i) == i \in DOMAIN notes /\ ~notes[i].isLoading

\* marginNotes[i] is truthy
HasNote(notes, i) == i \in DOMAIN notes

\* variant: the update does not spread the previous mapping
WithNoteOnly(prev, i, entry) == [k \in {i} |-> entry]

\* {...prev, [i]: entry}
WithNote(prev, i, entry) ==
    [k \in DOMAIN prev \cup {i} |-> IF k = i THEN entry ELSE prev[k]]

\* newNotes = {...prev}; delete newNotes[i]
WithoutNote(prev, i) == [k \in DOMAIN prev \ {i} |-> prev[k]]

\* JSON.stringify of the note mapping: the entries, keys ascending
RECURSIVE EntriesOf(_, _)
EntriesOf(notes, keys) ==
    IF keys = {} THEN <<>>
    ELSE LET k == SetMin(keys)
         IN  <<[key |-> k, value |-> notes[k]]>> \o EntriesOf(notes, keys \ {k})

JSONstringify(notes) == EntriesOf(notes, DOMAIN notes)

\* variant: the entries are read back as an array, keyed by position
JSONparseAsArray(str) == [k \in 0..(Len(str) - 1) |-> str[k + 1].value]

\* JSON.parse of a stored note mapping
JSONparse(str) ==
    [k \in {str[j].key : j \in 1..Len(str)} |->
        str[CHOOSE j \in 1..Len(str) : str[j].key = k].value]

\* a stored string that is not JSON, written as an entry list no
\* JSON.stringify of a note mapping produces
MalformedNotes == <<[key |-> -1, value |-> LoadingNote]>>

\* JSON.parse(str) throws a SyntaxError
JSONparseThrows(str) == \E j \in 1..Len(str) : str[j].key < 0

\* paragraphs[i], i counted from 0
ParagraphAt(ps, i) == ps[i + 1]

\* the outstanding requests for paragraph index i
InFlightFor(i) == {req \in BagToSet(inflight) : req.index = i}

RECURSIVE SumOver(_, _)
SumOver(f, S) ==
    IF S = {} THEN 0
    ELSE LET x == CHOOSE x \in S : TRUE IN f[x] + SumOver(f, S \ {x})

\* how many requests are outstanding for paragraph index i
InFlightCount(i) == SumOver(inflight, InFlightFor(i))

\* documents of the editor: up to MaxPars paragraphs, each at the length
\* limit (10 characters after trimming) or just under it (9 after trimming,
\* 10 before), joined by blank lines
LongText == Repeat("a", 10)
ShortText == <<" ">> \o Repeat("a", 9)
ParagraphTexts == {LongText, ShortText}

RECURSIVE Join(_, _)
Join(ps, sep) ==
    IF ps = <<>> THEN <<>>
    ELSE IF Len(ps) = 1 THEN ps[1]
    ELSE ps[1] \o sep \o Join(Tail(ps), sep)

Docs ==
    { Join(ps, ParagraphSeparator) :
        ps \in UNION {[1..n -> ParagraphTexts] : n \in 0..MaxPars} }

\* the paragraphs of each document of the editor, as the component
\* recomputes them in every render
Segmented == [d \in Docs |-> paragraphs(d)]

Indices == 0..(MaxPars - 1)

\* what the collaborator may do with the call of a request of the editor
WellFormedQuestion ==
    TypeMarker \o <<" ">> \o Question \o <<"\n">> \o TextMarker \o <<" ">> \o <<"W","h","y","?">>

WellFormedCommentary ==
    TypeMarker \o <<" ">> \o <<"C","o","m","m","e","n","t","a","r","y">> \o <<"\n">> \o
    TextMarker \o <<" ">> \o <<" ","o","k","\n">>

AppReplies ==
    { [ok |-> TRUE, text |-> WellFormedQuestion],
      [ok |-> TRUE, text |-> WellFormedCommentary],
      [ok |-> TRUE, text |-> <<>>],
      [ok |-> TRUE, text |-> OriginalFallbackText],
      [ok |-> FALSE, text |-> <<>>] }

\* what the client of the editor (gemini.js) returns for each of them
ClientResult == [reply \in AppReplies |-> generateMarginNote(reply)]

(***************************************************************************)
(* Editor component: the operations shared by both trigger strategies.     *)
(***************************************************************************)
NoQueued == [setContent |-> FALSE, content |-> <<>>, notes |-> NoNotes]
NoneIssued == [i \in Indices |-> 0]
NoReplies == [i \in Indices |-> "none"]
NoCall == [index |-> -1, result |-> "none"]
CallOf(i, r) == [index |-> i, result |-> r]

\* variant: the notes are written only together with the document
PersistWithContentOnly(st, newContent, contentChanged, newNotes, notesChanged) ==
    [content |-> IF contentChanged THEN newContent ELSE st.content,
     notes   |-> IF contentChanged THEN JSONstringify(newNotes) ELSE st.notes]

\* the two save effects: each writes its key when its state changed
Persist(st, newContent, contentChanged, newNotes, notesChanged) ==
    [content |-> IF contentChanged THEN newContent ELSE st.content,
     notes   |-> IF notesChanged THEN JSONstringify(newNotes) ELSE st.notes]

\* the two early returns of generateMarginNoteForParagraph; noted is
\* whether marginNotes[paragraphIndex] is truthy in the marginNotes of the
\* render that created the function
\* variant: the "already have a note" return is missing
PassesGateLengthOnly(noted, paragraphText) ==
    ~(Len(Trim(paragraphText)) < MinParagraphLength)

\* variant: the length is taken before trimming
PassesGateUntrimmed(noted, paragraphText) ==
    /\ ~(Len(paragraphText) < MinParagraphLength)
    /\ ~noted

PassesGate(noted, paragraphText) ==
    /\ ~(Len(Trim(paragraphText)) < MinParagraphLength)
    /\ ~noted

\* generateMarginNoteForParagraph up to its await; current is the state the
\* functional update setMarginNotes(prev => ...) is applied to
generateMarginNoteForParagraph(current, noted, paragraphIndex, paragraphText) ==
    IF PassesGate(noted, paragraphText)
    THEN /\ marginNotes' = WithNote(current, paragraphIndex, LoadingNote)
         /\ inflight' = inflight (+) SetToBag({[index |-> paragraphIndex, text |-> paragraphText]})
         /\ issued' = [issued EXCEPT ![paragraphIndex] = @ + 1]
         /\ lastCall' = CallOf(paragraphIndex, "started")
    ELSE /\ marginNotes' = current
         /\ UNCHANGED <<inflight, issued>>
         /\ lastCall' = CallOf(paragraphIndex, IF noted THEN "noted" ELSE "short")

\* variant: the result is dropped when the paragraph at the index is no
\* longer the text the request was made for
CompleteIfUnchanged(req, reply) ==
    /\ phase = "running"
    /\ BagIn(req, inflight)
    /\ LET note == ClientResult[reply]
           ps == Segmented[content]
           current == req.index < Len(ps) /\ ParagraphAt(ps, req.index) = req.text
       IN  /\ marginNotes' =
                IF ~current THEN marginNotes
                ELSE IF note.status = "resolved"
                THEN WithNote(marginNotes, req.index, ResolvedNote(note.value))
                ELSE WithoutNote(marginNotes, req.index)
           /\ lastReply' = [lastReply EXCEPT ![req.index] =
                                IF reply.ok THEN "returned" ELSE "rejected"]
    /\ inflight' = inflight (-) SetToBag({req})
    /\ storage' = Persist(storage, content, FALSE, marginNotes', TRUE)
    /\ lastCall' = NoCall
    /\ UNCHANGED <<content, prevParagraphCount, phase, queued, issued>>
    /\ UNCHANGED <<keyVars, clientVars, segVars, posVars>>

\* generateMarginNoteForParagraph after its await: the client settled one
\* outstanding request
Complete(req, reply) ==
    /\ phase = "running"
    /\ BagIn(req, inflight)
    /\ LET note == ClientResult[reply]
       IN  /\ marginNotes' =
                IF note.status = "resolved"
                THEN WithNote(marginNotes, req.index, ResolvedNote(note.value))
                ELSE WithoutNote(marginNotes, req.index)
           /\ lastReply' = [lastReply EXCEPT ![req.index] =
                                IF reply.ok THEN "returned" ELSE "rejected"]
    /\ inflight' = inflight (-) SetToBag({req})
    /\ storage' = Persist(storage, content, FALSE, marginNotes', TRUE)
    /\ lastCall' = NoCall
    /\ UNCHANGED <<content, prevParagraphCount, phase, queued, issued>>
    /\ UNCHANGED <<keyVars, clientVars, segVars, posVars>>

(***************************************************************************)
(* Editor component, paragraph-count trigger (App.jsx).                    *)
(***************************************************************************)
\* variant: the trigger targets the last paragraph
ParagraphCountEffectTargetsLast(before, after, current) ==
    LET ps == Segmented[after]
        targetIndex == Len(ps) - 1
    IN  IF Len(ps) = Len(Segmented[before])
        THEN /\ marginNotes' = current
             /\ lastCall' = NoCall
             /\ UNCHANGED <<inflight, issued, prevParagraphCount>>
        ELSE /\ IF /\ Len(ps) > prevParagraphCount
                   /\ targetIndex >= 0
                   /\ ParagraphAt(ps, targetIndex) # <<>>
                THEN generateMarginNoteForParagraph(current, HasNote(current, targetIndex),
                                                    targetIndex, ParagraphAt(ps, targetIndex))
                ELSE /\ marginNotes' = current
                     /\ lastCall' = NoCall
                     /\ UNCHANGED <<inflight, issued>>
             /\ prevParagraphCount' = Len(ps)

\* variant: the count seen last is only ever raised
ParagraphCountEffectKeepsMaximum(before, after, current) ==
    LET ps == Segmented[after]
        targetIndex == Len(ps) - 2
    IN  IF Len(ps) = Len(Segmented[before])
        THEN /\ marginNotes' = current
             /\ lastCall' = NoCall
             /\ UNCHANGED <<inflight, issued, prevParagraphCount>>
        ELSE /\ IF /\ Len(ps) > prevParagraphCount
                   /\ targetIndex >= 0
                   /\ ParagraphAt(ps, targetIndex) # <<>>
                THEN generateMarginNoteForParagraph(current, HasNote(current, targetIndex),
                                                    targetIndex, ParagraphAt(ps, targetIndex))
                ELSE /\ marginNotes' = current
                     /\ lastCall' = NoCall
                     /\ UNCHANGED <<inflight, issued>>
             /\ prevParagraphCount' =
                   IF Len(ps) > prevParagraphCount THEN Len(ps) ELSE prevParagraphCount

\* the effect with dependency [paragraphs.length]; before and after are the
\* document of the previous and of this render
ParagraphCountEffect(before, after, current) ==
    LET ps == Segmented[after]
        targetIndex == Len(ps) - 2
    IN  IF Len(ps) = Len(Segmented[before])
        THEN /\ marginNotes' = current
             /\ lastCall' = NoCall
             /\ UNCHANGED <<inflight, issued, prevParagraphCount>>
        ELSE /\ IF /\ Len(ps) > prevParagraphCount
                   /\ targetIndex >= 0
                   /\ ParagraphAt(ps, targetIndex) # <<>>
                THEN generateMarginNoteForParagraph(current, HasNote(current, targetIndex),
                                                    targetIndex, ParagraphAt(ps, targetIndex))
                ELSE /\ marginNotes' = current
                     /\ lastCall' = NoCall
                     /\ UNCHANGED <<inflight, issued>>
             /\ prevParagraphCount' = Len(ps)

\* variant: the entries of indices that have no paragraph any more are dropped
handleContentChangePrunes(newText) ==
    /\ phase = "running"
    /\ newText # content
    /\ content' = newText
    /\ ParagraphCountEffect(content, newText,
                            [k \in {i \in DOMAIN marginNotes : i < Len(Segmented[newText])}
                                |-> marginNotes[k]])
    /\ storage' = Persist(storage, newText, TRUE, marginNotes', marginNotes' # marginNotes)
    /\ UNCHANGED <<phase, queued, lastReply>>
    /\ UNCHANGED <<keyVars, clientVars, segVars, posVars>>

\* onChange of the textarea, the re-render and its effects
handleContentChange(newText) ==
    /\ phase = "running"
    /\ newText # content
    /\ content' = newText
    /\ ParagraphCountEffect(content, newText, marginNotes)
    /\ storage' = Persist(storage, newText, TRUE, marginNotes', marginNotes' # marginNotes)
    /\ UNCHANGED <<phase, queued, lastReply>>
    /\ UNCHANGED <<keyVars, clientVars, segVars, posVars>>

\* the page is closed and opened again: first render with the initial
\* state, then the effects in order (load, save content, save notes, count).
\* JSON.parse in the load effect is not guarded: when it throws, React
\* unmounts the component tree; whether the save effects of the same commit
\* have run by then depends on the React version.
Restart ==
    /\ phase \in {"running", "crashed"}
    /\ content' = <<>>
    /\ marginNotes' = NoNotes
    /\ IF JSONparseThrows(storage.notes)
       THEN /\ queued' = NoQueued
            /\ storage' \in {storage, Persist(storage, <<>>, TRUE, NoNotes, TRUE)}
            /\ phase' = "crashed"
       ELSE /\ queued' = [setContent |-> storage.content # <<>>,
                          content    |-> storage.content,
                          notes      |-> JSONparse(storage.notes)]
            /\ storage' = Persist(storage, <<>>, TRUE, NoNotes, TRUE)
            /\ phase' = "mounting"
    /\ prevParagraphCount' = 0
    /\ inflight' = EmptyBag
    /\ issued' = NoneIssued
    /\ lastReply' = NoReplies
    /\ lastCall' = NoCall
    /\ UNCHANGED <<keyVars, clientVars, segVars, posVars>>

\* the render with the loaded state, and its effects
Mounted ==
    /\ phase = "mounting"
    /\ content' = IF queued.setContent THEN queued.content ELSE content
    /\ ParagraphCountEffect(content, content', queued.notes)
    /\ storage' = Persist(storage, content', content' # content, marginNotes', TRUE)
    /\ queued' = NoQueued
    /\ phase' = "running"
    /\ UNCHANGED lastReply
    /\ UNCHANGED <<keyVars, clientVars, segVars, posVars>>

ClientUnused ==
    /\ stage = "idle"
    /\ variant = "original"
    /\ contentType = <<>>
    /\ mainPrompt = "none"
    /\ calls = <<>>
    /\ outcome = Unsettled

KeysUnused ==
    /\ lastKeyWasEnter = FALSE
    /\ timers = <<>>
    /\ enterRun = 0

SegUnused ==
    /\ segText = <<>>
    /\ segResult = <<>>
    /\ segStep = "input"

\* a first start on empty storage, after its effects have run
AppInit ==
    /\ content = <<>>
    /\ marginNotes = NoNotes
    /\ prevParagraphCount = 0
    /\ storage = [content |-> <<>>, notes |-> JSONstringify(NoNotes)]
    /\ inflight = EmptyBag
    /\ phase = "running"
    /\ queued = NoQueued
    /\ issued = NoneIssued
    /\ lastReply = NoReplies
    /\ lastCall = NoCall

NoPositions == [i \in {} |-> 0]

PositionsUnused ==
    /\ paragraphPositions = NoPositions
    /\ posTimers = <<>>
    /\ resizeListener = <<>>
    /\ viewport = 0

Init == AppInit /\ KeysUnused /\ ClientUnused /\ SegUnused /\ PositionsUnused

Next ==
    \/ \E newText \in Docs : handleContentChange(newText)
    \/ \E req \in BagToSet(inflight), reply \in AppReplies : Complete(req, reply)
    \/ Restart
    \/ Mounted

Spec == Init /\ [][Next]_vars

(***************************************************************************)
(* Editor component, double-Enter trigger.                                 *)
(***************************************************************************)
Keys == {"Enter", "a"}

\* onChange of the textarea in the double-Enter component: no trigger effect
keysHandleContentChange(newText) ==
    /\ phase = "running"
    /\ newText # content
    /\ content' = newText
    /\ storage' = Persist(storage, newText, TRUE, marginNotes, FALSE)
    /\ lastCall' = NoCall
    /\ UNCHANGED <<marginNotes, prevParagraphCount, inflight, phase, queued,
                   issued, lastReply>>
    /\ UNCHANGED <<keyVars, clientVars, segVars, posVars>>

\* variant: the flag stays set after a double Enter
handleKeyDownKeepsFlag(key) ==
    /\ phase = "running"
    /\ key = "Enter" => enterRun < MaxEnterRun
    /\ enterRun' = IF key = "Enter" THEN enterRun + 1 ELSE 0
    /\ IF key = "Enter"
       THEN IF lastKeyWasEnter
            THEN LET currentParagraphs == Segmented[content]
                     lastParagraphIndex == Len(currentParagraphs) - 1
                 IN  /\ IF /\ lastParagraphIndex >= 0
                           /\ ParagraphAt(currentParagraphs, lastParagraphIndex) # <<>>
                        THEN /\ Len(timers) < MaxTimers
                             /\ timers' = Append(timers,
                                   [index   |-> lastParagraphIndex,
                                    text    |-> ParagraphAt(currentParagraphs, lastParagraphIndex),
                                    noted   |-> HasNote(marginNotes, lastParagraphIndex)])
                        ELSE UNCHANGED timers
                     /\ lastKeyWasEnter' = TRUE
            ELSE /\ lastKeyWasEnter' = TRUE
                 /\ UNCHANGED timers
       ELSE /\ lastKeyWasEnter' = FALSE
            /\ UNCHANGED timers
    /\ lastCall' = NoCall
    /\ UNCHANGED <<content, marginNotes, prevParagraphCount, storage, inflight,
                   phase, queued, issued, lastReply>>
    /\ UNCHANGED <<clientVars, segVars, posVars>>

\* onKeyDown of the textarea.  The timer callback keeps the
\* generateMarginNoteForParagraph of this render, hence this render's
\* marginNotes, of which it reads marginNotes[lastParagraphIndex].
handleKeyDown(key) ==
    /\ phase = "running"
    /\ key = "Enter" => enterRun < MaxEnterRun
    /\ enterRun' = IF key = "Enter" THEN enterRun + 1 ELSE 0
    /\ IF key = "Enter"
       THEN IF lastKeyWasEnter
            THEN LET currentParagraphs == Segmented[content]
                     lastParagraphIndex == Len(currentParagraphs) - 1
                 IN  /\ IF /\ lastParagraphIndex >= 0
                           /\ ParagraphAt(currentParagraphs, lastParagraphIndex) # <<>>
                        THEN /\ Len(timers) < MaxTimers
                             /\ timers' = Append(timers,
                                   [index   |-> lastParagraphIndex,
                                    text    |-> ParagraphAt(currentParagraphs, lastParagraphIndex),
                                    noted   |-> HasNote(marginNotes, lastParagraphIndex)])
                        ELSE UNCHANGED timers
                     /\ lastKeyWasEnter' = FALSE
            ELSE /\ lastKeyWasEnter' = TRUE
                 /\ UNCHANGED timers
       ELSE /\ lastKeyWasEnter' = FALSE
            /\ UNCHANGED timers
    /\ lastCall' = NoCall
    /\ UNCHANGED <<content, marginNotes, prevParagraphCount, storage, inflight,
                   phase, queued, issued, lastReply>>
    /\ UNCHANGED <<clientVars, segVars, posVars>>

\* the oldest timer callback runs, 100 ms after its key press
TimerFires ==
    /\ phase = "running"
    /\ timers # <<>>
    /\ SumOver(issued, Indices) < MaxIssued
    /\ generateMarginNoteForParagraph(marginNotes, Head(timers).noted,
                                      Head(timers).index, Head(timers).text)
    /\ timers' = Tail(timers)
    /\ storage' = Persist(storage, content, FALSE, marginNotes', marginNotes' # marginNotes)
    /\ UNCHANGED <<content, prevParagraphCount, phase, queued, lastReply>>
    /\ UNCHANGED <<lastKeyWasEnter, enterRun, clientVars, segVars, posVars>>

\* documents and collaborator behaviour of the double-Enter model
KeyDocs == {d \in Docs : /\ Len(Segmented[d]) <= MaxKeyPars
                         /\ \A i \in 1..Len(Segmented[d]) : Segmented[d][i] = LongText}
KeyReplies == {reply \in AppReplies : reply.text \in {WellFormedQuestion, <<>>}}

KeysNext ==
    \/ \E newText \in KeyDocs : keysHandleContentChange(newText)
    \/ \E key \in Keys : handleKeyDown(key)
    \/ TimerFires
    \/ \E req \in BagToSet(inflight), reply \in KeyReplies : Complete(req, reply)

SpecKeys == Init /\ [][KeysNext]_vars

(***************************************************************************)
(* Editor component, trigger for every paragraph.                          *)
(***************************************************************************)
\* the effect with dependency [paragraphs.length]: forEach over the
\* paragraphs, every call reading the marginNotes of this render
EveryParagraphEffect(before, after, current) ==
    LET ps == Segmented[after]
        started == {i \in 0..(Len(ps) - 1) :
                       PassesGate(HasNote(current, i), ParagraphAt(ps, i))}
    IN  IF Len(ps) = Len(Segmented[before])
        THEN /\ marginNotes' = current
             /\ UNCHANGED <<inflight, issued>>
        ELSE /\ marginNotes' = [k \in DOMAIN current \cup started |->
                                   IF k \in started THEN LoadingNote ELSE current[k]]
             /\ inflight' = inflight (+)
                   SetToBag({[index |-> i, text |-> ParagraphAt(ps, i)] : i \in started})
             /\ issued' = [i \in Indices |-> issued[i] + IF i \in started THEN 1 ELSE 0]

\* onChange of the textarea, the re-render and its effects
everyHandleContentChange(newText) ==
    /\ phase = "running"
    /\ newText # content
    /\ content' = newText
    /\ EveryParagraphEffect(content, newText, marginNotes)
    /\ storage' = Persist(storage, newText, TRUE, marginNotes', marginNotes' # marginNotes)
    /\ lastCall' = NoCall
    /\ UNCHANGED <<prevParagraphCount, phase, queued, lastReply>>
    /\ UNCHANGED <<keyVars, clientVars, segVars, posVars>>

\* the render with the loaded state, and its effects
everyMounted ==
    /\ phase = "mounting"
    /\ content' = IF queued.setContent THEN queued.content ELSE content
    /\ EveryParagraphEffect(content, content', queued.notes)
    /\ storage' = Persist(storage, content', content' # content, marginNotes', TRUE)
    /\ queued' = NoQueued
    /\ phase' = "running"
    /\ lastCall' = NoCall
    /\ UNCHANGED <<prevParagraphCount, lastReply>>
    /\ UNCHANGED <<keyVars, clientVars, segVars, posVars>>

TestNotes ==
    [i \in {0, 1} |->
        IF i = 0
        THEN [text |-> <<"T","h","i","s"," ","o","p","e","n","i","n","g"," ","f","e","e",
                      "l","s"," ","v","u","l","n","e","r","a","b","l","e"," ","a","n",
                      "d"," ","h","o","n","e","s","t","."," ","Y","o","u","'","r","e",
                      " ","a","c","k","n","o","w","l","e","d","g","i","n","g"," ","b",
                      "o","t","h"," ","t","h","e"," ","s","t","r","e","s","s"," ","a",
                      "n","d"," ","t","h","e"," ","s","t","r","u","g","g","l","e"," ",
                      "w","i","t","h"," ","s","e","l","f","-","d","o","u","b","t",".">>,
              type |-> Commentary, isVisible |-> TRUE]
        ELSE [text |-> <<"G","i","v","e","n"," ","h","o","w"," ","m","u","c","h"," ","t",
                      "i","m","e"," ","y","o","u"," ","s","p","e","n","t",","," ","w",
                      "h","a","t"," ","i","s"," ","t","h","e"," ","s","i","n","g","l",
                      "e"," ","m","o","s","t"," ","c","o","n","f","u","s","i","n","g",
                      " ","c","o","n","c","e","p","t"," ","f","r","o","m"," ","t","h",
                      "a","t"," ","h","a","l","f","-","h","o","u","r"," ","t","h","a",
                      "t"," ","y","o","u"," ","c","a","n"," ","a","s","k"," ","y","o",
                      "u","r"," ","p","r","o","f","e","s","s","o","r"," ","a","b","o",
                      "u","t"," ","f","i","r","s","t","?">>,
              type |-> Question, isVisible |-> TRUE]]

\* onClick of the test button: the note mapping is replaced; the history of
\* started requests begins anew with the new mapping
addTestNotes ==
    /\ phase = "running"
    /\ BagCardinality(inflight) <= MaxOutstanding
    /\ marginNotes' = TestNotes
    /\ storage' = Persist(storage, content, FALSE, marginNotes', TRUE)
    /\ issued' = NoneIssued
    /\ lastCall' = NoCall
    /\ UNCHANGED <<content, prevParagraphCount, inflight, phase, queued, lastReply>>
    /\ UNCHANGED <<keyVars, clientVars, segVars, posVars>>

\* documents and collaborator behaviour of this model
EveryDocs == {d \in Docs : Len(Segmented[d]) <= MaxKeyPars}
EveryReplies == {reply \in AppReplies : reply.text \in {WellFormedQuestion, <<>>}}

EveryNext ==
    \/ \E newText \in EveryDocs : everyHandleContentChange(newText)
    \/ \E req \in BagToSet(inflight), reply \in EveryReplies : Complete(req, reply)
    \/ addTestNotes
    \/ Restart
    \/ everyMounted

SpecEvery == Init /\ [][EveryNext]_vars

(***************************************************************************)
(* Segmenter alone: any short text is segmented, and the paragraphs,       *)
(* joined by blank lines, are segmented again.                             *)
(***************************************************************************)
SegAlphabet == {"a", " ", "\n"}
SegDocs == UNION {[1..n -> SegAlphabet] : n \in 0..MaxDocLen}

SegInit ==
    /\ segText \in SegDocs
    /\ segResult = <<>>
    /\ segStep = "input"

\* const paragraphs = content.split('\n\n').filter(p => p.trim() !== '')
Segment ==
    /\ segStep = "input"
    /\ segResult' = paragraphs(segText)
    /\ segStep' = "segmented"
    /\ UNCHANGED segText
    /\ UNCHANGED <<appVars, keyVars, clientVars, posVars>>

\* the same on the paragraphs joined by the separator
Resegment ==
    /\ segStep = "segmented"
    /\ segText' = Join(segResult, ParagraphSeparator)
    /\ segResult' = paragraphs(segText')
    /\ segStep' = "resegmented"
    /\ UNCHANGED <<appVars, keyVars, clientVars, posVars>>

SegNext == Segment \/ Resegment

SegOnlyInit == AppInit /\ KeysUnused /\ ClientUnused /\ SegInit /\ PositionsUnused

SpecSegment == SegOnlyInit /\ [][SegNext]_vars

(***************************************************************************)
(* The page with a store that something else can write to: the notes key   *)
(* may hold a string that is not JSON when the page is opened.             *)
(***************************************************************************)
\* localStorage.setItem('chatMargins-notes', ...) from outside the component
StoredNotesReplaced ==
    /\ phase = "running"
    /\ storage.notes # MalformedNotes
    /\ storage' = [storage EXCEPT !.notes = MalformedNotes]
    /\ lastCall' = NoCall
    /\ UNCHANGED <<content, marginNotes, prevParagraphCount, inflight, phase,
                   queued, issued, lastReply>>
    /\ UNCHANGED <<keyVars, clientVars, segVars, posVars>>

StartNext ==
    \/ \E newText \in Docs : handleContentChange(newText)
    \/ \E req \in BagToSet(inflight), reply \in AppReplies : Complete(req, reply)
    \/ StoredNotesReplaced
    \/ Restart
    \/ Mounted

SpecStart == Init /\ [][StartNext]_vars

(***************************************************************************)
(* Position tracker (App.jsx): calculateParagraphPositions, the deferred   *)
(* recomputation after a content change, and the resize listener.  Heights *)
(* are in lines of the textarea; a line of text wraps at the width of the  *)
(* viewport.  The documents are shorter than the length limit of the note  *)
(* trigger, so no annotation request starts in this component.             *)
(***************************************************************************)
LineHeight == 1
PaddingTop == 1
Widths == {1, 2}

\* measureDiv.offsetHeight with white-space: pre-wrap
WrappedLines(line, width) ==
    IF Len(line) = 0 THEN 1 ELSE (Len(line) + width - 1) \div width

RECURSIVE SumLines(_, _)
SumLines(lines, width) ==
    IF lines = <<>> THEN 0
    ELSE WrappedLines(Head(lines), width) + SumLines(Tail(lines), width)

offsetHeight(para, width) == SumLines(Split(para, <<"\n">>), width) * LineHeight

\* paragraphTexts.forEach((para, index) => ...)
RECURSIVE PositionsFrom(_, _, _, _)
PositionsFrom(paragraphTexts, index, currentY, width) ==
    IF paragraphTexts = <<>> THEN NoPositions
    ELSE IF Trim(Head(paragraphTexts)) = <<>>
         THEN PositionsFrom(Tail(paragraphTexts), index + 1, currentY, width)
         ELSE (index :> currentY) @@
              PositionsFrom(Tail(paragraphTexts), index + 1,
                            currentY + offsetHeight(Head(paragraphTexts), width)
                                     + (LineHeight * 2),
                            width)

\* variant: the blank entries are dropped before the entries are numbered
calculateParagraphPositionsFiltered(text, width) ==
    PositionsFrom(paragraphs(text), 0, PaddingTop, width)

\* the positions object calculateParagraphPositions hands to setParagraphPositions
calculateParagraphPositions(text, width) ==
    PositionsFrom(Split(text, ParagraphSeparator), 0, PaddingTop, width)

PosAlphabet == {"a", "\n"}
PosDocs == UNION {[1..n -> PosAlphabet] : n \in 0..MaxDocLen}

PosSegmented == Tabulated([d \in PosDocs |-> paragraphs(d)])
PosCalculated ==
    Tabulated([d \in PosDocs |-> [w \in Widths |-> calculateParagraphPositions(d, w)]])

\* the page after a first start on empty storage: the timer of the first
\* render is pending and the listener is registered
PosInit ==
    /\ paragraphPositions = NoPositions
    /\ posTimers = << <<>> >>
    /\ resizeListener = <<>>
    /\ viewport \in Widths

\* variant: the cleanup of the timer effect does not clear the timer
posHandleContentChangeKeepsTimer(newText) ==
    /\ phase = "running"
    /\ newText # content
    /\ content' = newText
    /\ prevParagraphCount' =
          IF Len(PosSegmented[newText]) = Len(PosSegmented[content])
          THEN prevParagraphCount ELSE Len(PosSegmented[newText])
    /\ storage' = Persist(storage, newText, TRUE, marginNotes, FALSE)
    /\ posTimers' = Append(posTimers, newText)
    /\ resizeListener' = newText
    /\ UNCHANGED <<paragraphPositions, viewport>>
    /\ UNCHANGED <<marginNotes, inflight, phase, queued, issued, lastReply, lastCall>>
    /\ UNCHANGED <<keyVars, clientVars, segVars>>

\* onChange of the textarea, the re-render and its effects: the count
\* effect (no paragraph reaches the length limit), the save effect, the
\* cleanup and the new run of the timer effect and of the resize effect
posHandleContentChange(newText) ==
    /\ phase = "running"
    /\ newText # content
    /\ content' = newText
    /\ prevParagraphCount' =
          IF Len(PosSegmented[newText]) = Len(PosSegmented[content])
          THEN prevParagraphCount ELSE Len(PosSegmented[newText])
    /\ storage' = Persist(storage, newText, TRUE, marginNotes, FALSE)
    /\ posTimers' = <<newText>>
    /\ resizeListener' = newText
    /\ UNCHANGED <<paragraphPositions, viewport>>
    /\ UNCHANGED <<marginNotes, inflight, phase, queued, issued, lastReply, lastCall>>
    /\ UNCHANGED <<keyVars, clientVars, segVars>>

\* the setTimeout callback runs calculateParagraphPositions of its render
PositionTimerFires ==
    /\ posTimers # <<>>
    /\ paragraphPositions' = PosCalculated[Head(posTimers)][viewport]
    /\ posTimers' = Tail(posTimers)
    /\ UNCHANGED <<resizeListener, viewport>>
    /\ UNCHANGED <<appVars, keyVars, clientVars, segVars>>

\* the window is resized: the registered listener runs
Resize(width) ==
    /\ viewport' = width
    /\ paragraphPositions' = PosCalculated[resizeListener][width]
    /\ UNCHANGED <<posTimers, resizeListener>>
    /\ UNCHANGED <<appVars, keyVars, clientVars, segVars>>

PosNext ==
    \/ \E newText \in PosDocs : posHandleContentChange(newText)
    \/ PositionTimerFires
    \/ \E width \in Widths : Resize(width)

PosOnlyInit == AppInit /\ KeysUnused /\ ClientUnused /\ SegUnused /\ PosInit

SpecPositions == PosOnlyInit /\ [][PosNext]_vars /\ WF_vars(PositionTimerFires)

(***************************************************************************)
(* Persistence alone: a page holding any small note mapping, written       *)
(* through to the store, is closed and opened again.                       *)
(***************************************************************************)
\* the entries a note mapping of the page can hold: the placeholder, a
\* parsed note, the note of a failed call
StoredNotes ==
    { LoadingNote,
      ResolvedNote(ClientResult[[ok |-> TRUE, text |-> WellFormedCommentary]].value),
      ResolvedNote(ClientResult[[ok |-> TRUE, text |-> WellFormedQuestion]].value),
      ResolvedNote(ClientResult[[ok |-> FALSE, text |-> <<>>]].value) }

NoteMappings == UNION {[S -> StoredNotes] : S \in SUBSET Indices}

StoreInit ==
    /\ content = <<>>
    /\ marginNotes \in NoteMappings
    /\ prevParagraphCount = 0
    /\ storage = [content |-> <<>>, notes |-> JSONstringify(marginNotes)]
    /\ inflight = EmptyBag
    /\ phase = "running"
    /\ queued = NoQueued
    /\ issued = NoneIssued
    /\ lastReply = NoReplies
    /\ lastCall = NoCall

StoreOnlyInit == StoreInit /\ KeysUnused /\ ClientUnused /\ SegUnused /\ PositionsUnused

StoreNext == Restart \/ Mounted

SpecStore == StoreOnlyInit /\ [][StoreNext]_vars

(***************************************************************************)
(* Annotation client alone.                                                *)
(***************************************************************************)
ClientOnlyInit == AppInit /\ KeysUnused /\ ClientInit /\ SegUnused /\ PositionsUnused

SpecClient == ClientOnlyInit /\ [][ClientNext]_vars

(***************************************************************************)
(* The running page under the assumption that the collaborator settles     *)
(* every call: each outstanding request is eventually completed.           *)
(***************************************************************************)
Requests == {[index |-> i, text |-> t] : i \in Indices, t \in ParagraphTexts}

LiveNext ==
    \/ \E newText \in Docs : handleContentChange(newText)
    \/ \E req \in BagToSet(inflight), reply \in AppReplies : Complete(req, reply)

LiveSpec ==
    /\ Init
    /\ [][LiveNext]_vars
    /\ \A req \in Requests : WF_vars(\E reply \in AppReplies : Complete(req, reply))

(***************************************************************************)
(* Properties.                                                             *)
(***************************************************************************)
IsPending(i) == i \in DOMAIN marginNotes /\ marginNotes[i].isLoading
IsSettled(i) == i \in DOMAIN marginNotes /\ ~marginNotes[i].isLoading

\* the note mapping a call made in this step reads: during a start the
\* loaded mapping that the second render shows
NotesSeen == IF phase = "mounting" THEN queued.notes ELSE marginNotes

\* C1: paragraph-count trigger: in every reachable state each paragraph
\* index has at most one annotation request in flight.
C1_AtMostOneInFlight == \A i \in Indices : InFlightCount(i) <= 1

\* C1 witness: the trigger has just targeted an index whose request is
\* still in flight, and no second request was started.
C1_Witness ==
    /\ lastCall.result = "noted"
    /\ InFlightCount(lastCall.index) = 1
    /\ IsPending(lastCall.index)

\* C2: double-Enter trigger: no interleaving of key presses, timer
\* callbacks and completions starts two requests for the same index.
C2_NoSecondRequest == \A i \in Indices : issued[i] <= 1

\* C3: a request is started for index i only in a step that begins with no
\* entry for i in the note mapping (neither pending, resolved nor failed).
C3_StartOnlyWhenAbsent ==
    [][\A i \in Indices : issued'[i] > issued[i] => i \notin DOMAIN NotesSeen]_vars

\* C3 witness: after the count was lowered and raised again the trigger
\* targeted an index whose note is resolved, and started nothing.
C3_Witness ==
    /\ lastCall.result = "noted"
    /\ IsSettled(lastCall.index)
    /\ InFlightCount(lastCall.index) = 0
    /\ issued[lastCall.index] = 1

C5_PendingOnlyWhileInFlight ==
    \A i \in Indices : IsPending(i) => InFlightCount(i) >= 1

\* C6: after a request has failed, the note of its index is a failed note:
\* one that no successful reply can produce.
C6_FailedIsDistinguishable ==
    \A i \in Indices :
        (lastReply[i] = "rejected" /\ IsSettled(i)) =>
            marginNotes[i] \notin
                {ResolvedNote(ClientResult[r].value) : r \in {x \in AppReplies : x.ok}}

\* C7: generateMarginNote always resolves, with a kind in {commentary,
\* question} and a non-empty text.
C7_TotalWithNonEmptyText ==
    stage = "done" =>
        /\ outcome.status = "resolved"
        /\ outcome.value.type \in Kinds
        /\ outcome.value.text # <<>>

RejectedCalls == {k \in 1..Len(calls) : calls[k].reply.state = "rejected"}

\* C8: if a collaborator call rejects, at either stage, generateMarginNote
\* resolves to the fixed fallback commentary of the client, the same at
\* both stages.
C8_RejectionGivesFixedFallback ==
    (stage = "done" /\ RejectedCalls # {}) =>
        outcome = [status |-> "resolved",
                   value  |-> [type |-> Commentary,
                               text |-> IF variant = "adaptive"
                                        THEN AdaptiveFallbackText
                                        ELSE OriginalFallbackText]]

\* C8 witness: the adaptive client finished after its second call failed.
C8_Witness ==
    /\ stage = "done"
    /\ variant = "adaptive"
    /\ RejectedCalls = {2}
    /\ outcome.status = "resolved"

ClassifyFailed ==
    /\ stage = "done"
    /\ variant = "adaptive"
    /\ calls[1].template = "analysis"
    /\ calls[1].reply.state = "rejected"

\* C9 as stated: after a failed classification the generate stage is still
\* carried out, with the fallback prompt.
C9_ClassifyErrorDefaultsToOther ==
    ClassifyFailed => (Len(calls) = 2 /\ calls[2].template = "default")

\* C9 as amended: a failed classification does not make the operation
\* fail: it resolves to the fixed fallback note, no content type is set and
\* no generation call is made.
C9_ClassifyErrorIsCaught ==
    ClassifyFailed =>
        /\ outcome.status = "resolved"
        /\ outcome.value = [type |-> Commentary, text |-> AdaptiveFallbackText]
        /\ Len(calls) = 1
        /\ mainPrompt = "none"
        /\ contentType = <<>>

\* C9 witness: the adaptive client finished after its first call failed.
C9_Witness == ClassifyFailed /\ outcome.status = "resolved"

SpecificLabels == {Journaling, Brainstorming, Technical, Storytelling, NoteTaking}

PromptOfLabel(l) ==
    CASE l = Journaling    -> "journaling"
      [] l = Brainstorming -> "brainstorming"
      [] l = Technical     -> "technical"
      [] l = Storytelling  -> "storytelling"
      [] l = NoteTaking    -> "note-taking"

\* C10: the generation prompt is that of label L exactly when the raw
\* classifier output, trimmed and lower-cased, is one of the five specific
\* labels; "poetry", "other", a label with punctuation and the empty output
\* get the fallback prompt.
C10_PromptFollowsLabel ==
    (variant = "adaptive" /\ Len(calls) = 2) =>
        LET raw == calls[1].reply.text
            normal == ToLowerCase(Trim(raw))
            prompt == calls[2].template
        IN  /\ normal \in SpecificLabels => prompt = PromptOfLabel(normal)
            /\ normal \notin SpecificLabels => prompt = "default"
            /\ raw \in {<<"p","o","e","t","r","y">>, Other, <<>>,
                        <<"j","o","u","r","n","a","l","i","n","g",".">>}
                  => prompt = "default"

\* C10 witness: the classifier answered " Journaling" and a line break, and
\* the journaling prompt was sent.
C10_Witness ==
    /\ variant = "adaptive"
    /\ Len(calls) = 2
    /\ calls[1].reply.text = <<" ","J","o","u","r","n","a","l","i","n","g","\n">>
    /\ calls[2].template = "journaling"

\* the text the generation call returned, once the client has finished
MainReturned ==
    /\ stage = "done"
    /\ calls[Len(calls)].template # "analysis"
    /\ calls[Len(calls)].reply.state = "returned"

MainText == calls[Len(calls)].reply.text

\* where word occurs in s, letter case ignored
OccursNoCase(s, word) ==
    {p \in 1..Len(s) : HasAt(ToLowerCase(s), ToLowerCase(word), p)}

Letters == {UpperCase[i] : i \in 1..26} \cup {LowerCase[i] : i \in 1..26}

\* the word that follows the first type marker of s: its letters up to the
\* body marker, lower-cased
TypeValue(s) ==
    LET p == SetMin(OccursNoCase(s, TypeMarker))
        q == SkipWhiteSpace(s, p + Len(TypeMarker))
        stop == {e \in q..Len(s) : s[e] \notin Letters} \cup
                {e \in OccursNoCase(s, TextMarker) : e >= q}
        last == IF stop = {} THEN Len(s) ELSE SetMin(stop) - 1
    IN  ToLowerCase(SubSeq(s, q, last))

\* C11: a generation output without the type marker, without the body
\* marker (in any letter case), or whose type value is neither commentary
\* nor question, is returned whole: {commentary, the output trimmed}.
C11_MalformedFallsBack ==
    ( /\ MainReturned
      /\ \/ OccursNoCase(MainText, TypeMarker) = {}
         \/ OccursNoCase(MainText, TextMarker) = {}
         \/ TypeValue(MainText) \notin Kinds )
    => outcome = Resolved([type |-> Commentary, text |-> Trim(MainText)])

ToUpperChar(c) ==
    IF \E i \in 1..26 : LowerCase[i] = c
    THEN UpperCase[CHOOSE i \in 1..26 : LowerCase[i] = c]
    ELSE c

\* s with every type marker and body marker written in upper case
WithUpperCaseMarkers(s) ==
    LET at == OccursNoCase(s, TypeMarker) \cup OccursNoCase(s, TextMarker)
    IN  [i \in 1..Len(s) |->
            IF \E p \in at : p <= i /\ i < p + Len(TypeMarker)
            THEN ToUpperChar(s[i]) ELSE s[i]]

ParseOf(v, responseText) ==
    IF v = "adaptive" THEN ParseResponseAdaptive(responseText)
    ELSE ParseResponse(responseText)

\* C12: the letter case of the two markers does not matter: an output
\* that has both markers in some letter case parses to the {kind, text}
\* that the same output with upper-case markers parses to.
C12_MarkersInAnyCase ==
    LET upper == WithUpperCaseMarkers(MainText)
    IN  (MainReturned /\ TypeMatch(upper).matched /\ TextMatch(upper).matched)
        => outcome = Resolved(ParseOf(variant, upper))

\* C13: a well-formed reply "TYPE: <k>", line break, "TEXT: <body>" turns
\* the entry of the request's index into the resolved note with kind k in
\* lower case and the trimmed body as text, no longer loading.
C13_WellFormedReplyResolves ==
    [][\A req \in Requests :
        /\ Complete(req, [ok |-> TRUE, text |-> WellFormedQuestion]) =>
              marginNotes'[req.index] =
                  [text |-> <<"W","h","y","?">>, type |-> Question,
                   isVisible |-> TRUE, isLoading |-> FALSE]
        /\ Complete(req, [ok |-> TRUE, text |-> WellFormedCommentary]) =>
              marginNotes'[req.index] =
                  [text |-> <<"o","k">>, type |-> Commentary,
                   isVisible |-> TRUE, isLoading |-> FALSE]]_vars

\* C13 witness: a request was answered and its note is the commentary of
\* the reply written "Commentary" with a padded body.
C13_Witness ==
    \E i \in Indices :
        /\ lastReply[i] = "returned"
        /\ i \in DOMAIN marginNotes
        /\ marginNotes[i].text = <<"o","k">>
        /\ marginNotes[i].type = Commentary
        /\ ~marginNotes[i].isLoading

\* the paragraph count after this step, and whether it exceeds the count the
\* trigger effect saw last while a second-to-last paragraph exists
CountAfter == Len(Segmented[content'])
CountIncreased == CountAfter > prevParagraphCount /\ CountAfter >= 2
TargetIndex == CountAfter - 2
TargetText == ParagraphAt(Segmented[content'], TargetIndex)

\* C14: a targeted paragraph of fewer than 10 characters after trimming
\* starts no request and leaves the note mapping as it was; one of 10 or
\* more whose index has no note starts a request and becomes pending.
C14_LengthFloor ==
    [][CountIncreased =>
        /\ Len(Trim(TargetText)) < 10 =>
              /\ issued' = issued
              /\ inflight' = inflight
              /\ marginNotes' = NotesSeen
        /\ (Len(Trim(TargetText)) >= 10 /\ TargetIndex \notin DOMAIN NotesSeen) =>
              /\ issued'[TargetIndex] = issued[TargetIndex] + 1
              /\ BagIn([index |-> TargetIndex, text |-> TargetText], inflight')
              /\ marginNotes'[TargetIndex] = LoadingNote]_vars

\* C14 witness: the trigger has just targeted a paragraph of 10 characters
\* of which 9 are left after trimming, and nothing was started for it, while
\* a paragraph of exactly 10 had its request started before.
C14_Witness ==
    /\ lastCall.result = "short"
    /\ Len(ParagraphAt(Segmented[content], lastCall.index)) = 10
    /\ Len(Trim(ParagraphAt(Segmented[content], lastCall.index))) = 9
    /\ lastCall.index \notin DOMAIN marginNotes
    /\ issued[lastCall.index] = 0
    /\ \E j \in Indices : issued[j] = 1

\* C15: paragraph-count trigger: a step calls generateMarginNoteForParagraph
\* exactly when the paragraph count exceeds the count seen last (and there
\* is a second-to-last paragraph), for index count - 2 and no other; a
\* step that keeps or lowers the count calls and starts nothing; the count
\* seen last follows the document.
C15_FiresOnCountIncrease ==
    [][/\ CountIncreased => /\ lastCall'.index = TargetIndex
                            /\ \A i \in Indices \ {TargetIndex} : issued'[i] = issued[i]
                            /\ issued'[TargetIndex] <= issued[TargetIndex] + 1
       /\ ~CountIncreased => /\ lastCall' = NoCall
                             /\ \A i \in Indices : issued'[i] <= issued[i]
       /\ prevParagraphCount' = CountAfter]_vars

\* C15 witness: three paragraphs arrived in one change and only the second
\* was requested.
C15_Witness ==
    /\ Len(Segmented[content]) = 3
    /\ lastCall = CallOf(1, "started")
    /\ issued = [i \in Indices |-> IF i = 1 THEN 1 ELSE 0]
    /\ DOMAIN marginNotes = {1}

\* a timer was set in this step: the double-Enter trigger fired
TimerSet == Len(timers') = Len(timers) + 1
EnterPressed == enterRun' = enterRun + 1

C17_OneRequestPerIndex ==
    \A i \in Indices :
        /\ issued[i] <= 1
        /\ (issued[i] = 1 /\ phase = "running") => i \in DOMAIN marginNotes

\* C17 witness: the count went up one paragraph at a time to two, each
\* index was requested once, and the count trigger ran again after the
\* first request was answered.
C17_Witness ==
    /\ Len(Segmented[content]) = 2
    /\ issued = [i \in Indices |-> IF i <= 1 THEN 1 ELSE 0]
    /\ lastReply[0] = "returned"
    /\ InFlightCount(1) = 1

\* the entries between blank-line delimiters that hold something other than
\* white space, in order of appearance: what segmentation keeps
RECURSIVE NonBlankRuns(_)
NonBlankRuns(s) ==
    LET at == {p \in 1..Len(s) : HasAt(s, ParagraphSeparator, p)}
        first == IF at = {} THEN s ELSE SubSeq(s, 1, SetMin(at) - 1)
        rest == IF at = {} THEN <<>>
                ELSE NonBlankRuns(SubSeq(s, SetMin(at) + 2, Len(s)))
        here == IF \E i \in 1..Len(first) : first[i] \notin WhiteSpace
                THEN <<first>> ELSE <<>>
    IN  IF s = <<>> THEN <<>> ELSE here \o rest

\* C18: the paragraphs of a text are its non-blank entries between
\* blank-line delimiters, in order, each of them trimmed.
C18_ParagraphsAreTrimmed ==
    segStep = "segmented" =>
        /\ Len(segResult) = Len(NonBlankRuns(segText))
        /\ \A k \in 1..Len(segResult) : segResult[k] = Trim(NonBlankRuns(segText)[k])

\* C19: segmenting the paragraphs joined by the blank-line delimiter gives
\* the same paragraphs again: same count, same texts, same order.
C19_SegmentationIdempotent ==
    [][(segStep = "segmented" /\ segStep' = "resegmented") => segResult' = segResult]_vars

\* C19 witness: a text with three line breaks in a row was segmented twice;
\* its second paragraph begins with a line break both times.
C19_Witness ==
    /\ segStep = "resegmented"
    /\ segResult = << <<"a">>, <<"\n", "a">> >>
    /\ segText = <<"a", "\n", "\n", "\n", "a">>

\* C20: a start of the page never fails: stored notes that do not parse
\* are taken as the empty mapping and the start goes on.
C20_MalformedNotesIgnored == phase # "crashed"

\* C21: after every step the notes key holds the serialization of the whole
\* current note mapping, and a restart of the running page reads back
\* exactly the mapping the page had.
C21_WriteThrough ==
    [][/\ storage'.notes = JSONstringify(marginNotes')
       /\ (phase = "running" /\ phase' = "mounting") => queued'.notes = marginNotes]_vars

\* C21 witness: a page that had a resolved note and a pending note is being
\* restarted and both entries have been read back.
C21_Witness ==
    /\ phase = "mounting"
    /\ \E i, j \in DOMAIN queued.notes :
          queued.notes[i].isLoading /\ ~queued.notes[j].isLoading

\* C22: a note mapping that is serialized and deserialized comes back with
\* the same indices, and per index the same kind, text and loading state;
\* a restart hands exactly that deserialized mapping to the page.
C22_RoundTrip ==
    [][LET back == JSONparse(JSONstringify(marginNotes))
       IN  /\ DOMAIN back = DOMAIN marginNotes
           /\ \A i \in DOMAIN marginNotes :
                 /\ back[i].type = marginNotes[i].type
                 /\ back[i].text = marginNotes[i].text
                 /\ back[i].isLoading = marginNotes[i].isLoading
           /\ (phase = "running" /\ phase' = "mounting") => queued'.notes = back
           /\ (phase = "mounting" /\ phase' = "running") => marginNotes' = queued.notes]_vars

\* C22 witness: a restart has read back the mapping with a resolved note at
\* 0, nothing at 1 and the note of a failed call at 2.
C22_Witness ==
    /\ phase = "mounting"
    /\ DOMAIN queued.notes = {0, 2}
    /\ queued.notes[0].type = Question
    /\ ~queued.notes[0].isLoading
    /\ queued.notes[2].text = OriginalFallbackText

\* C23: whenever no recomputation is pending, the position map has one key
\* per paragraph of the segmenter, 0..n-1.
C23_KeyedByParagraphIndex ==
    posTimers = <<>> =>
        DOMAIN paragraphPositions = 0..(Len(PosSegmented[content]) - 1)

\* C24: a content change schedules one recomputation for the new document,
\* cancels the pending one and recomputes nothing in the same step; every
\* recomputation that runs yields the map of the current document; and a
\* pending recomputation leads to the map of the current document.
C24_DeferredRecomputation ==
    /\ [](\A k \in 1..Len(posTimers) : posTimers[k] = content)
    /\ [](resizeListener = content)
    /\ [][/\ content' # content =>
               /\ posTimers' = <<content'>>
               /\ paragraphPositions' = paragraphPositions
          /\ ((posTimers # <<>> /\ posTimers' = Tail(posTimers)) \/ viewport' # viewport) =>
                paragraphPositions' = PosCalculated[content][viewport']]_vars
    /\ [](posTimers = <<>> => paragraphPositions = PosCalculated[content][viewport])
    /\ (posTimers # <<>>) ~> (/\ posTimers = <<>>
                              /\ paragraphPositions = PosCalculated[content][viewport])

\* C24 witness: the recomputation scheduled by a change to a document of two
\* paragraphs has run and replaced the map of the earlier document.
C24_Witness ==
    /\ posTimers = <<>>
    /\ Len(PosSegmented[content]) = 2
    /\ paragraphPositions = PosCalculated[content][viewport]
    /\ paragraphPositions # NoPositions

\* the indices whose entry differs between the two states of a step
ChangedIndices ==
    {i \in Indices :
        \/ (i \in DOMAIN marginNotes) # (i \in DOMAIN marginNotes')
        \/ /\ i \in DOMAIN marginNotes
           /\ i \in DOMAIN marginNotes'
           /\ marginNotes'[i] # marginNotes[i]}

\* a request for index i leaves the set of outstanding requests in this step
Completes(i) == \E req \in InFlightFor(i) : inflight' = inflight (-) SetToBag({req})

\* C25: every step of the running page changes the entry of at most one
\* index, the one whose request starts or completes in that step; all other
\* entries, pending or settled, stay as they are.
C25_OneIndexPerMutation ==
    [][(phase = "running" /\ phase' = "running") =>
          /\ Cardinality(ChangedIndices) <= 1
          /\ \A i \in ChangedIndices : issued'[i] > issued[i] \/ Completes(i)]_vars

\* C25 witness: requests for indices 0 and 1 overlapped and the later one
\* completed first; the entry of index 0 is still the placeholder.
C25_Witness ==
    /\ phase = "running"
    /\ lastReply[1] = "returned"
    /\ IsSettled(1)
    /\ IsPending(0)
    /\ InFlightCount(0) = 1

\* the note mapping after the step, as NotesSeen gives it before the step
NotesSeenNext == IF phase' = "mounting" THEN queued'.notes ELSE marginNotes'

\* C26: a request that starts leaves the placeholder at its index and is
\* outstanding in the same step; an index becomes pending only from absent,
\* becomes settled only from pending, and a settled entry never changes.
C26_NoteLifecycle ==
    [][\A i \in Indices :
          /\ issued'[i] > issued[i] =>
                /\ marginNotes'[i] = LoadingNote
                /\ InFlightFor(i)' # {}
          /\ (i \in DOMAIN NotesSeenNext /\ i \notin DOMAIN NotesSeen) =>
                NotesSeenNext[i] = LoadingNote
          /\ (i \in DOMAIN NotesSeen /\ ~NotesSeen[i].isLoading) =>
                /\ i \in DOMAIN NotesSeenNext
                /\ NotesSeenNext[i] = NotesSeen[i]
          /\ (i \in DOMAIN NotesSeen /\ NotesSeen[i].isLoading) =>
                /\ i \in DOMAIN NotesSeenNext
                /\ NotesSeenNext[i] # NotesSeen[i] =>
                      /\ ~NotesSeenNext[i].isLoading
                      /\ Completes(i)]_vars

\* C26 witness: the second request of the page has resolved to a question
\* while the first, settled earlier as a commentary, is unchanged.
C26_Witness ==
    /\ phase = "running"
    /\ IsSettled(0) /\ marginNotes[0].type = Commentary
    /\ IsSettled(1) /\ marginNotes[1].type = Question
    /\ lastReply[0] = "returned"
    /\ lastReply[1] = "returned"
    /\ InFlightCount(0) + InFlightCount(1) = 0

\* C27 as stated: a content change leaves the note mapping as it is.
C27_ContentChangeLeavesNotes ==
    [][(content' # content /\ phase = "running" /\ phase' = "running") => marginNotes' = marginNotes]_vars

\* C27 amended: a content change keeps every entry of the note mapping at
\* its index with its value, whatever paragraphs the new document has; the
\* only difference it can make is the placeholder of the request it starts.
C27_ContentChangeKeepsEntries ==
    [][(content' # content /\ phase = "running" /\ phase' = "running") =>
          /\ \A i \in DOMAIN marginNotes :
                i \in DOMAIN marginNotes' /\ marginNotes'[i] = marginNotes[i]
          /\ \A i \in DOMAIN marginNotes' \ DOMAIN marginNotes :
                /\ marginNotes'[i] = LoadingNote
                /\ issued'[i] > issued[i]]_vars

\* C27 witness: the document has been cut down to one paragraph and the
\* settled note of index 1 is still in the mapping.
C27_Witness ==
    /\ phase = "running"
    /\ Len(Segmented[content]) = 1
    /\ prevParagraphCount = 1
    /\ IsSettled(1)
    /\ lastReply[1] = "returned"

\* the outstanding requests whose text is not the paragraph now at their index
StaleRequests ==
    {req \in BagToSet(inflight) :
        \/ req.index >= Len(Segmented[content])
        \/ ParagraphAt(Segmented[content], req.index) # req.text}

\* C28: a request that starts records the index and the paragraph text of
\* that moment; while the page runs an outstanding request is left as it is
\* by every edit, and it leaves the outstanding set only by writing a
\* settled note, made from one of the collaborator's outcomes, at its
\* recorded index, also when that index now holds another paragraph or none.
C28_NoCancellation ==
    [][(phase = "running" /\ phase' = "running") =>
          /\ \A i \in Indices : issued'[i] > issued[i] =>
                [index |-> i, text |-> ParagraphAt(Segmented[content'], i)]
                    \in BagToSet(inflight')
          /\ \A req \in BagToSet(inflight) :
                \/ BagIn(req, inflight')
                \/ /\ content' = content
                   /\ req.index \in DOMAIN marginNotes'
                   /\ marginNotes'[req.index] \in
                         {ResolvedNote(ClientResult[r].value) : r \in AppReplies}]_vars

\* C28 witness: the request of index 0 has completed and its note is in the
\* mapping, although the document no longer has a paragraph; the request of
\* index 1 is still outstanding for a paragraph that is gone.
C28_Witness ==
    /\ phase = "running"
    /\ content = <<>>
    /\ IsSettled(0)
    /\ lastReply[0] = "returned"
    /\ \E req \in StaleRequests : req.index = 1

\* C29: every entry of the note mapping, in the page and in the store, is
\* visible: the placeholder, every settled note, and every entry read back.
C29_NeverSuppressed ==
    /\ \A i \in DOMAIN NotesSeen : NotesSeen[i].isVisible
    /\ \A k \in 1..Len(storage.notes) : storage.notes[k].value.isVisible

\* C29 witness: the mapping holds a placeholder and a settled note side by
\* side, and both are in the store.
C29_Witness ==
    /\ phase = "running"
    /\ \E i, j \in DOMAIN marginNotes :
          /\ marginNotes[i].isLoading
          /\ ~marginNotes[j].isLoading
          /\ marginNotes[j].type = Question
    /\ Len(storage.notes) = 2

\* C30: both clients resolve in their catch block, so the editor never takes
\* its deleting branch: an index that has an entry has one after every step.
C30_EntriesAreKept ==
    /\ [](OriginalCatch.status = "resolved" /\ AdaptiveCatch.status = "resolved")
    /\ [](\A reply \in AppReplies : ClientResult[reply].status = "resolved")
    /\ [][DOMAIN NotesSeen \subseteq DOMAIN NotesSeenNext]_vars

\* C30 witness: the collaborator rejected the call for index 0 and the entry
\* of index 0 is in the mapping, settled with the fallback text.
C30_Witness ==
    /\ phase = "running"
    /\ lastReply[0] = "rejected"
    /\ 0 \in DOMAIN marginNotes
    /\ marginNotes[0].text = OriginalFallbackText
    /\ InFlightCount(0) = 0

\* C31: between the first render of a start and the render with the loaded
\* state, the store still holds the document and the notes that the start
\* has read, so that a restart at that point would read them again.
C31_StartKeepsStore ==
    phase = "mounting" =>
        /\ storage.content = queued.content
        /\ JSONparse(storage.notes) = queued.notes

\* C32: one call of the adaptive client makes at most two collaborator
\* calls, the classification first; the generation call exists only when
\* the classification has returned, and carries the prompt selected from
\* the normalised classification; a rejected call is the last call, and the
\* operation is finished with it.
C32_TwoStagesInOrder ==
    variant = "adaptive" =>
        /\ Len(calls) <= 2
        /\ Len(calls) >= 1 => calls[1].template = "analysis"
        /\ Len(calls) = 2 =>
              /\ calls[1].reply.state = "returned"
              /\ calls[2].template = SelectPrompt(NormalizeContentType(calls[1].reply.text))
              /\ calls[2].template = mainPrompt
              /\ calls[2].text = calls[1].text
        /\ \A k \in 1..Len(calls) :
              /\ calls[k].reply.state = "rejected" => (k = Len(calls) /\ stage = "done")
              /\ calls[k].reply.state = "pending" => (k = Len(calls) /\ stage # "done")

\* C32 witness: the classification returned "technical", the generation
\* call was made with the technical prompt and was rejected.
C32_Witness ==
    /\ variant = "adaptive"
    /\ stage = "done"
    /\ Len(calls) = 2
    /\ calls[1].reply = Returned(Technical)
    /\ calls[2].template = "technical"
    /\ calls[2].reply.state = "rejected"
    /\ outcome = AdaptiveCatch

\* C33: whichever client made the call, the result for a generation output
\* is what the parser of the original client and the parser of the adaptive
\* client both give for it; after a rejection the two clients return the
\* same kind and differ in the fallback text only.
C33_ParsersAgree ==
    /\ MainReturned =>
          /\ outcome = Resolved(ParseResponse(MainText))
          /\ outcome = Resolved(ParseResponseAdaptive(MainText))
    /\ OriginalCatch.status = AdaptiveCatch.status
    /\ OriginalCatch.value.type = AdaptiveCatch.value.type
    /\ OriginalCatch.value.text # AdaptiveCatch.value.text

\* C33 witness: the adaptive client has parsed an output whose kind is
\* written with a capital letter and whose body spans two lines.
C33_Witness ==
    /\ variant = "adaptive"
    /\ MainReturned
    /\ MainText = TypeMarker \o <<"C","o","m","m","e","n","t","a","r","y">> \o <<"\n">>
                    \o TextMarker \o <<" ">> \o <<"x","\n","y"," ">>
    /\ outcome = Resolved([type |-> Commentary, text |-> <<"x","\n","y">>])

\* C34: the count the trigger effect remembers is the paragraph count of the
\* current document in every state, after decreases as after increases; so
\* every step that raises the count of the document to two or more, also
\* back to a count it had before, calls generateMarginNoteForParagraph for
\* index count - 2, and the call then passes or fails the gate.
C34_PreviousCountFollows ==
    /\ [](prevParagraphCount = Len(Segmented[content]))
    /\ [][(CountAfter > Len(Segmented[content]) /\ CountAfter >= 2) =>
             /\ lastCall'.index = CountAfter - 2
             /\ lastCall'.result \in {"started", "noted", "short"}
             /\ lastCall'.result = "started" <=>
                   PassesGate(HasNote(NotesSeen, CountAfter - 2), TargetText)]_vars

\* C34 witness: the count went from two to fewer and back to two while the
\* request of index 0 was outstanding; the trigger called for index 0 again
\* and the gate found its note.
C34_Witness ==
    /\ phase = "running"
    /\ prevParagraphCount = 2
    /\ lastCall = CallOf(0, "noted")
    /\ IsPending(0)
    /\ issued[0] = 1
    /\ InFlightCount(0) = 1

====
